---- MODULE Spec2Model ----
(***************************************************************************)
(* Expect-CT Lite demo client (client.c).                                  *)
(*                                                                         *)
(* The model has two parts:                                                *)
(*   - the CT validation callback on_ct_validation, computed as the C code *)
(*     computes it (early return, loop with assert, switch on the source,  *)
(*     final test), together with the text it writes to stderr;            *)
(*   - main, one step per library call, each call succeeding or failing    *)
(*     as the TLS library decides.                                         *)
(* Spec       runs main once (one handshake, one callback invocation).     *)
(* SpecPolicy has the TLS layer invoke the registered callback repeatedly  *)
(*            (several handshakes on one configured SSL_CTX).              *)
(***************************************************************************)
EXTENDS Integers, Sequences, FiniteSets, TLC

VARIABLES pc, argc, rc, ctx, bio, hs_ret, trace, stderr, cb, prev

vars == <<pc, argc, rc, ctx, bio, hs_ret, trace, stderr, cb, prev>>

(***************************************************************************)
(* Bounds.                                                                 *)
(***************************************************************************)
\* Longest SCT collection the TLS layer hands to the callback.
MaxScts == 3
\* Largest argc the program is started with.
MaxArgc == 2

(***************************************************************************)
(* Data: SCTs and SCT collections (STACK_OF(SCT)).                         *)
(***************************************************************************)
\* Values SCT_get_source can return.  "OTHER" stands for any value outside
\* the four the library names today.
Sources == {"X509V3_EXTENSION", "OCSP_STAPLED_RESPONSE", "TLS_EXTENSION",
            "UNKNOWN", "OTHER"}

\* The opaque part of an SCT (log id, timestamp, signature): only printed.
Payloads == {"payload_a", "payload_b"}

\* A null SCT pointer.
NullSct == [source |-> "NULL", payload |-> "NULL"]

SctValues == [source : Sources, payload : Payloads]

\* What slot i of a stack can hold as far as the C types go.
Elements == SctValues \cup {NullSct}

SeqsUpTo(S, n) == UNION {[1..k -> S] : k \in 0..n}

\* scts == NULL: the TLS layer collected no SCT list at all.
AbsentStack == [absent |-> TRUE, elems |-> <<>>]

Stacks == {AbsentStack} \cup
          {[absent |-> FALSE, elems |-> e] : e \in SeqsUpTo(Elements, MaxScts)}

\* sk_SCT_num: the number of elements, -1 for a NULL stack.
sk_SCT_num(scts) == IF scts.absent THEN -1 ELSE Len(scts.elems)

\* sk_SCT_value: element i (0-based), NULL when out of range.
sk_SCT_value(scts, i) ==
  IF i >= 0 /\ i < sk_SCT_num(scts) THEN scts.elems[i + 1] ELSE NullSct

SCT_get_source(sct) == sct.source

(***************************************************************************)
(* stderr: a sequence of writes.  A write is the format string, its        *)
(* integer arguments and, for SCT_print, the SCT that is dumped.           *)
(***************************************************************************)
Line(fmt, args) == [fmt |-> fmt, args |-> args, sct |-> NullSct]

\* SCT_print(sct, stderr_bio, 2, NULL): the dump of one SCT, indent 2.
Dump(sct) == [fmt |-> "SCT_print", args |-> <<2>>, sct |-> sct]

MsgNoScts == "No SCTs received, not considering this connection valid\n"
MsgHeader == "SCTs:\n"
MsgNewline == "\n"
MsgX509 == "    ==> Got an SCT delivered via X509v3 (CA-signed)\n"
MsgOcsp == "    ==> Got an SCT delivered via OCSP (CA-signed)\n"
MsgTls == "    ==> Got an SCT delivered via TLS extension (not CA-signed)\n"
MsgUnknown == "    ==> Got an SCT delivered via unknown source (assuming not CA-signed)\n"
MsgNoSigned == "No SCTs were received via a CA-signed delivery method, not considering this connection valid\n"
MsgAccept == "Got %d SCTs of which %d were via CA-signed channels, considering this connection valid\n"
MsgNotValidated == "SCT signatures have NOT been validated\n"
MsgAssert == "Assertion `sct' failed.\n"
MsgUsage == "usage: %s <hostname:port>\n"
MsgConnected == "Successfully connected\n"
MsgErrStack == "ERR_print_errors_fp"

(***************************************************************************)
(* on_ct_validation                                                        *)
(***************************************************************************)
Returned(ret, out) == [outcome |-> "return", ret |-> ret, out |-> out]

\* assert(sct) failed: the message is written and abort() ends the process.
Aborted(out) == [outcome |-> "abort", ret |-> 0, out |-> out]

\* if (num_sct <= 0) { fprintf(...); return 0; }
NoSctsReceived(num_sct) == num_sct <= 0

\* Mutant: the early return yields 1.
RejectNoScts_Returns1 == Returned(1, <<Line(MsgNoScts, <<>>)>>)

RejectNoScts == Returned(0, <<Line(MsgNoScts, <<>>)>>)

\* Mutant: the OCSP case lacks ++num_signed_sct.
ClassifySource_OcspNotCounted(source) ==
  CASE source = "X509V3_EXTENSION"      -> [line |-> Line(MsgX509, <<>>), inc |-> 1]
    [] source = "OCSP_STAPLED_RESPONSE" -> [line |-> Line(MsgOcsp, <<>>), inc |-> 0]
    [] source = "TLS_EXTENSION"         -> [line |-> Line(MsgTls, <<>>), inc |-> 0]
    [] OTHER                            -> [line |-> Line(MsgUnknown, <<>>), inc |-> 0]

\* Mutant: the default case falls into a counting case.
ClassifySource_DefaultCounted(source) ==
  CASE source = "X509V3_EXTENSION"      -> [line |-> Line(MsgX509, <<>>), inc |-> 1]
    [] source = "OCSP_STAPLED_RESPONSE" -> [line |-> Line(MsgOcsp, <<>>), inc |-> 1]
    [] source = "TLS_EXTENSION"         -> [line |-> Line(MsgTls, <<>>), inc |-> 0]
    [] OTHER                            -> [line |-> Line(MsgUnknown, <<>>), inc |-> 1]

\* The switch on SCT_get_source(sct): the line written and the increment of
\* num_signed_sct.
ClassifySource(source) ==
  CASE source = "X509V3_EXTENSION"      -> [line |-> Line(MsgX509, <<>>), inc |-> 1]
    [] source = "OCSP_STAPLED_RESPONSE" -> [line |-> Line(MsgOcsp, <<>>), inc |-> 1]
    [] source = "TLS_EXTENSION"         -> [line |-> Line(MsgTls, <<>>), inc |-> 0]
    [] OTHER                            -> [line |-> Line(MsgUnknown, <<>>), inc |-> 0]

\* Mutant: the dump is written without testing stderr_bio.
PrintSct_Unconditional(sct, stderr_bio, out) ==
  out \o <<Dump(sct), Line(MsgNewline, <<>>)>>

\* if (stderr_bio) { SCT_print(sct, stderr_bio, 2, NULL); fprintf(stderr, "\n"); }
PrintSct(sct, stderr_bio, out) ==
  IF stderr_bio THEN out \o <<Dump(sct), Line(MsgNewline, <<>>)>> ELSE out

\* Mutant: the loop stops one element early.
LoopCond_OffByOne(i, num_sct) == i < num_sct - 1

\* The loop condition i < num_sct.
LoopCond(i, num_sct) == i < num_sct

\* Mutant: the switch sits inside the if (stderr_bio) block.
LoopBody_SwitchInsideIf(sct, stderr_bio, st) ==
  LET c == ClassifySource(SCT_get_source(sct))
  IN  IF stderr_bio
      THEN [num_signed_sct |-> st.num_signed_sct + c.inc,
            out |-> Append(PrintSct(sct, stderr_bio, st.out), c.line)]
      ELSE st

\* One pass through the loop body for a non-null sct: st is the pair of
\* num_signed_sct and the output so far.
LoopBody(sct, stderr_bio, st) ==
  LET c == ClassifySource(SCT_get_source(sct))
  IN  [num_signed_sct |-> st.num_signed_sct + c.inc,
       out |-> Append(PrintSct(sct, stderr_bio, st.out), c.line)]

\* for (int i = 0; i < num_sct; ++i) { sct = sk_SCT_value(scts, i); assert(sct); ... }
RECURSIVE ForEachSct(_, _, _, _, _)
ForEachSct(scts, i, num_sct, stderr_bio, st) ==
  IF ~LoopCond(i, num_sct)
  THEN [aborted |-> FALSE, num_signed_sct |-> st.num_signed_sct, out |-> st.out]
  ELSE LET sct == sk_SCT_value(scts, i)
       IN  IF sct = NullSct
           THEN [aborted |-> TRUE, num_signed_sct |-> st.num_signed_sct,
                 out |-> Append(st.out, Line(MsgAssert, <<>>))]
           ELSE ForEachSct(scts, i + 1, num_sct, stderr_bio,
                           LoopBody(sct, stderr_bio, st))

\* Mutant: the last fprintf of the accepting path is missing.
Conclude_NoDisclaimer(num_sct, num_signed_sct, out) ==
  IF num_signed_sct <= 0
  THEN Returned(0, Append(out, Line(MsgNoSigned, <<>>)))
  ELSE Returned(1, Append(out, Line(MsgAccept, <<num_sct, num_signed_sct>>)))

\* Mutant: the two arguments of the accepting fprintf are exchanged.
Conclude_ArgsSwapped(num_sct, num_signed_sct, out) ==
  IF num_signed_sct <= 0
  THEN Returned(0, Append(out, Line(MsgNoSigned, <<>>)))
  ELSE Returned(1, out \o <<Line(MsgAccept, <<num_signed_sct, num_sct>>),
                            Line(MsgNotValidated, <<>>)>>)

\* if (num_signed_sct <= 0) { ...; return 0; }  fprintf(Got ...); fprintf(NOT validated); return 1;
Conclude(num_sct, num_signed_sct, out) ==
  IF num_signed_sct <= 0
  THEN Returned(0, Append(out, Line(MsgNoSigned, <<>>)))
  ELSE Returned(1, out \o <<Line(MsgAccept, <<num_sct, num_signed_sct>>),
                            Line(MsgNotValidated, <<>>)>>)

\* The whole callback.  stderr_bio is TRUE when BIO_new_fp returned non-NULL.
on_ct_validation(scts, stderr_bio) ==
  LET num_sct == sk_SCT_num(scts)
  IN  IF NoSctsReceived(num_sct)
      THEN RejectNoScts
      ELSE LET l == ForEachSct(scts, 0, num_sct, stderr_bio,
                               [num_signed_sct |-> 0, out |-> <<Line(MsgHeader, <<>>)>>])
           IN  IF l.aborted
               THEN Aborted(l.out)
               ELSE Conclude(num_sct, l.num_signed_sct, l.out)

\* The record kept of one invocation of the callback.
NoEval == [called |-> FALSE, scts |-> AbsentStack, stderr_bio |-> FALSE,
           outcome |-> "none", ret |-> 0, out |-> <<>>]

Eval(scts, stderr_bio) ==
  LET r == on_ct_validation(scts, stderr_bio)
  IN  [called |-> TRUE, scts |-> scts, stderr_bio |-> stderr_bio,
       outcome |-> r.outcome, ret |-> r.ret, out |-> r.out]

\* The source at each position of a collection ("NULL" for a null element).
SourcesOf(scts) == [i \in 1..Len(scts.elems) |-> scts.elems[i].source]

\* What is kept of the evaluation before the current one.
NoPrev == [called |-> FALSE, sources |-> <<>>, stderr_bio |-> FALSE,
           outcome |-> "none", ret |-> 0]

Summary(e) == [called |-> e.called, sources |-> SourcesOf(e.scts),
               stderr_bio |-> e.stderr_bio, outcome |-> e.outcome, ret |-> e.ret]

(***************************************************************************)
(* configure_ct_lite_enforcement                                           *)
(***************************************************************************)
NullCtx == [state |-> "null", verify |-> "none", verify_paths |-> FALSE,
            min_proto |-> "none", ct |-> "disabled", ct_callback |-> "none"]

Call(name, ok) == [call |-> name, ok |-> ok]

\* SSL_CTX_enable_ct(ctx, SSL_CT_VALIDATION_STRICT), succeeding or not.
SSL_CTX_enable_ct(c, ok) == IF ok THEN [c EXCEPT !.ct = "strict"] ELSE c

\* SSL_CTX_set_ct_validation_callback(ctx, on_ct_validation, NULL).
SSL_CTX_set_ct_validation_callback(c, ok) ==
  IF ok THEN [c EXCEPT !.ct_callback = "on_ct_validation"] ELSE c

\* Mutant: the result of SSL_CTX_enable_ct is not tested.
configure_ct_lite_enforcement_EnableUnchecked(c, enable_ok, set_ok) ==
  [ret |-> IF set_ok THEN 1 ELSE 0,
   ctx |-> SSL_CTX_set_ct_validation_callback(SSL_CTX_enable_ct(c, enable_ok), set_ok),
   calls |-> <<Call("SSL_CTX_enable_ct", enable_ok),
               Call("SSL_CTX_set_ct_validation_callback", set_ok)>>]

\* enable_ok, set_ok: what the two library calls return if they are made.
\* The result is the return value, the context and the library calls made.
configure_ct_lite_enforcement(c, enable_ok, set_ok) ==
  IF ~enable_ok
  THEN [ret |-> 0, ctx |-> SSL_CTX_enable_ct(c, FALSE),
        calls |-> <<Call("SSL_CTX_enable_ct", FALSE)>>]
  ELSE IF ~set_ok
       THEN [ret |-> 0,
             ctx |-> SSL_CTX_set_ct_validation_callback(SSL_CTX_enable_ct(c, TRUE), FALSE),
             calls |-> <<Call("SSL_CTX_enable_ct", TRUE),
                         Call("SSL_CTX_set_ct_validation_callback", FALSE)>>]
       ELSE [ret |-> 1,
             ctx |-> SSL_CTX_set_ct_validation_callback(SSL_CTX_enable_ct(c, TRUE), TRUE),
             calls |-> <<Call("SSL_CTX_enable_ct", TRUE),
                         Call("SSL_CTX_set_ct_validation_callback", TRUE)>>]

(***************************************************************************)
(* main                                                                    *)
(***************************************************************************)
Init ==
  /\ pc = "parse_args"
  /\ argc \in 1..MaxArgc
  /\ rc = 1
  /\ ctx = NullCtx
  /\ bio = "null"
  /\ hs_ret = 0
  /\ trace = <<>>
  /\ stderr = <<>>
  /\ cb = NoEval
  /\ prev = NoPrev

\* A library call of main that only succeeds or fails: on failure goto err.
LibraryCall(from, name, ok, to) ==
  /\ pc = from
  /\ trace' = Append(trace, Call(name, ok))
  /\ pc' = IF ok THEN to ELSE "err"

\* if (argc < 2) { fprintf(stderr, "usage: ..."); goto err; }  hostname = argv[1];
ParseArgs ==
  /\ pc = "parse_args"
  /\ IF argc < 2
     THEN /\ stderr' = Append(stderr, Line(MsgUsage, <<>>))
          /\ pc' = "err"
     ELSE /\ stderr' = stderr
          /\ pc' = "ctx_new"
  /\ UNCHANGED <<argc, rc, ctx, bio, hs_ret, trace, cb, prev>>

\* ctx = SSL_CTX_new(...); if (!ctx) goto err; SSL_CTX_set_verify(ctx, SSL_VERIFY_PEER, NULL);
CtxNew ==
  /\ \E ok \in BOOLEAN :
       /\ LibraryCall("ctx_new", "SSL_CTX_new", ok, "verify_paths")
       /\ ctx' = IF ok THEN [NullCtx EXCEPT !.state = "live", !.verify = "peer"]
                       ELSE ctx
  /\ UNCHANGED <<argc, rc, bio, hs_ret, stderr, cb, prev>>

\* if (!SSL_CTX_set_default_verify_paths(ctx)) goto err;
SetDefaultVerifyPaths ==
  /\ \E ok \in BOOLEAN :
       /\ LibraryCall("verify_paths", "SSL_CTX_set_default_verify_paths", ok, "min_proto")
       /\ ctx' = IF ok THEN [ctx EXCEPT !.verify_paths = TRUE] ELSE ctx
  /\ UNCHANGED <<argc, rc, bio, hs_ret, stderr, cb, prev>>

\* if (!SSL_CTX_set_min_proto_version(ctx, TLS1_2_VERSION)) goto err;
SetMinProtoVersion ==
  /\ \E ok \in BOOLEAN :
       /\ LibraryCall("min_proto", "SSL_CTX_set_min_proto_version", ok, "configure")
       /\ ctx' = IF ok THEN [ctx EXCEPT !.min_proto = "TLS1_2_VERSION"] ELSE ctx
  /\ UNCHANGED <<argc, rc, bio, hs_ret, stderr, cb, prev>>

\* if (!configure_ct_lite_enforcement(ctx)) goto err;
ConfigureCtLite ==
  /\ pc = "configure"
  /\ \E enable_ok \in BOOLEAN, set_ok \in BOOLEAN :
       LET r == configure_ct_lite_enforcement(ctx, enable_ok, set_ok)
       IN  /\ ctx' = r.ctx
           /\ trace' = trace \o r.calls \o
                       <<Call("configure_ct_lite_enforcement", r.ret # 0)>>
           /\ pc' = IF r.ret = 0 THEN "err" ELSE "bio_new"
  /\ UNCHANGED <<argc, rc, bio, hs_ret, stderr, cb, prev>>

\* bio = BIO_new_ssl_connect(ctx); if (!bio) goto err;
BioNewSslConnect ==
  /\ \E ok \in BOOLEAN :
       /\ LibraryCall("bio_new", "BIO_new_ssl_connect", ok, "get_ssl")
       /\ bio' = IF ok THEN "live" ELSE bio
  /\ UNCHANGED <<argc, rc, ctx, hs_ret, stderr, cb, prev>>

\* if (!BIO_get_ssl(bio, &ssl)) goto err;
BioGetSsl ==
  /\ \E ok \in BOOLEAN : LibraryCall("get_ssl", "BIO_get_ssl", ok, "set_conn_hostname")
  /\ UNCHANGED <<argc, rc, ctx, bio, hs_ret, stderr, cb, prev>>

\* if (!BIO_set_conn_hostname(bio, hostname)) goto err;
BioSetConnHostname ==
  /\ \E ok \in BOOLEAN :
       LibraryCall("set_conn_hostname", "BIO_set_conn_hostname", ok, "get_conn_hostname")
  /\ UNCHANGED <<argc, rc, ctx, bio, hs_ret, stderr, cb, prev>>

\* bare_hostname = BIO_get_conn_hostname(bio); if (!bare_hostname) goto err;
BioGetConnHostname ==
  /\ \E ok \in BOOLEAN :
       LibraryCall("get_conn_hostname", "BIO_get_conn_hostname", ok, "set1_host")
  /\ UNCHANGED <<argc, rc, ctx, bio, hs_ret, stderr, cb, prev>>

\* if (!SSL_set1_host(ssl, bare_hostname)) goto err;
SslSet1Host ==
  /\ \E ok \in BOOLEAN : LibraryCall("set1_host", "SSL_set1_host", ok, "do_handshake")
  /\ UNCHANGED <<argc, rc, ctx, bio, hs_ret, stderr, cb, prev>>

(***************************************************************************)
(* BIO_do_handshake(bio): the TLS layer.  It connects and handshakes; with *)
(* CT validation enabled and a callback registered it hands the peer's     *)
(* SCTs to the callback once, before the handshake may complete, and a     *)
(* callback result of 0 fails the handshake.                               *)
(***************************************************************************)
\* The handshake fails before CT validation (name resolution, connect,
\* certificate chain, hostname), or it reaches CT validation.
HandshakeStart ==
  /\ pc = "do_handshake"
  /\ \/ /\ \E r \in {-1, 0} : hs_ret' = r
        /\ trace' = Append(trace, Call("BIO_do_handshake", FALSE))
        /\ pc' = "handshake_returned"
     \/ /\ ctx.ct = "strict"
        /\ ctx.ct_callback = "on_ct_validation"
        /\ UNCHANGED <<hs_ret, trace>>
        /\ pc' = "ct_validation"
  /\ UNCHANGED <<argc, rc, ctx, bio, stderr, cb, prev>>

\* The TLS layer invokes on_ct_validation(ctx, scts, arg).
CtValidation ==
  /\ pc = "ct_validation"
  /\ \E scts \in Stacks, stderr_bio \in BOOLEAN :
       /\ cb' = Eval(scts, stderr_bio)
       /\ stderr' = stderr \o cb'.out
       /\ pc' = IF cb'.outcome = "abort" THEN "aborted" ELSE "ct_returned"
  /\ UNCHANGED <<argc, rc, ctx, bio, hs_ret, trace, prev>>

\* After the callback returned: 0 fails the handshake; after 1 the handshake
\* completes, or still fails for a reason of its own.
HandshakeFinish ==
  /\ pc = "ct_returned"
  /\ \E r \in {-1, 0, 1} :
       /\ cb.ret = 0 => r <= 0
       /\ hs_ret' = r
       /\ trace' = Append(trace, Call("BIO_do_handshake", r > 0))
  /\ pc' = "handshake_returned"
  /\ UNCHANGED <<argc, rc, ctx, bio, stderr, cb, prev>>

\* Mutant: only a negative result is taken as failure.
HandshakeFailed_NegativeOnly(r) == r < 0

\* if (BIO_do_handshake(bio) <= 0) goto err;
HandshakeFailed(r) == r <= 0

\* ... goto err;  fprintf(stderr, "Successfully connected\n");  rc = 0;
CheckHandshake ==
  /\ pc = "handshake_returned"
  /\ IF HandshakeFailed(hs_ret)
     THEN UNCHANGED <<rc, stderr>>
     ELSE /\ stderr' = Append(stderr, Line(MsgConnected, <<>>))
          /\ rc' = 0
  /\ pc' = "err"
  /\ UNCHANGED <<argc, ctx, bio, hs_ret, trace, cb, prev>>

\* err: if (rc) ERR_print_errors_fp(stderr); BIO_free_all(bio); SSL_CTX_free(ctx); return rc;
Cleanup ==
  /\ pc = "err"
  /\ stderr' = IF rc # 0 THEN Append(stderr, Line(MsgErrStack, <<>>)) ELSE stderr
  /\ bio' = IF bio = "live" THEN "freed" ELSE bio
  /\ ctx' = IF ctx.state = "live" THEN [ctx EXCEPT !.state = "freed"] ELSE ctx
  /\ pc' = "exited"
  /\ UNCHANGED <<argc, rc, hs_ret, trace, cb, prev>>

Next ==
  \/ ParseArgs
  \/ CtxNew
  \/ SetDefaultVerifyPaths
  \/ SetMinProtoVersion
  \/ ConfigureCtLite
  \/ BioNewSslConnect
  \/ BioGetSsl
  \/ BioSetConnHostname
  \/ BioGetConnHostname
  \/ SslSet1Host
  \/ HandshakeStart
  \/ CtValidation
  \/ HandshakeFinish
  \/ CheckHandshake
  \/ Cleanup

Spec == Init /\ [][Next]_vars

(***************************************************************************)
(* SpecPolicy: an SSL_CTX configured by configure_ct_lite_enforcement      *)
(* serves two handshakes; the TLS layer invokes the callback once in each. *)
(* In the second handshake the peer presents SCTs with the same sources    *)
(* again (other payloads, the BIO created or not), or the same SCTs in     *)
(* another order.  A process that aborted in the first handshake is        *)
(* started again for the second.  stderr is kept from the start of the     *)
(* current invocation on.                                                  *)
(***************************************************************************)
ConfiguredCtx == configure_ct_lite_enforcement(
                   [NullCtx EXCEPT !.state = "live", !.verify = "peer",
                                   !.verify_paths = TRUE,
                                   !.min_proto = "TLS1_2_VERSION"], TRUE, TRUE).ctx

InitPolicy ==
  /\ pc = "ct_validation"
  /\ argc = 2
  /\ rc = 1
  /\ ctx = ConfiguredCtx
  /\ bio = "live"
  /\ hs_ret = 0
  /\ trace = <<>>
  /\ stderr = <<>>
  /\ cb = NoEval
  /\ prev = NoPrev

Invoke(scts, stderr_bio) ==
  /\ pc = "ct_validation"
  /\ ctx.ct = "strict"
  /\ ctx.ct_callback = "on_ct_validation"
  /\ prev' = Summary(cb)
  /\ cb' = Eval(scts, stderr_bio)
  /\ stderr' = cb'.out
  /\ UNCHANGED <<pc, argc, rc, ctx, bio, hs_ret, trace>>

\* The first handshake: any collection.
FirstEvaluation ==
  /\ ~cb.called
  /\ \E scts \in Stacks, stderr_bio \in BOOLEAN : Invoke(scts, stderr_bio)

\* The collection cb.scts with the payload of its i-th SCT replaced by pl[i].
WithPayloads(scts, pl) ==
  [scts EXCEPT !.elems = [i \in 1..Len(scts.elems) |->
     IF scts.elems[i] = NullSct THEN NullSct
     ELSE [source |-> scts.elems[i].source, payload |-> pl[i]]]]

\* The second handshake: the same source at each position, any payloads.
SameSourcesEvaluation ==
  /\ cb.called
  /\ ~prev.called
  /\ \E pl \in [1..Len(cb.scts.elems) -> Payloads], stderr_bio \in BOOLEAN :
       Invoke(WithPayloads(cb.scts, pl), stderr_bio)

Bijections(n) == {p \in [1..n -> 1..n] : \A i, j \in 1..n : p[i] = p[j] => i = j}

Permuted(scts, p) ==
  [scts EXCEPT !.elems = [i \in 1..Len(scts.elems) |-> scts.elems[p[i]]]]

\* The second handshake: the same SCTs in another order.
PermutedEvaluation ==
  /\ cb.called
  /\ ~prev.called
  /\ \E p \in Bijections(Len(cb.scts.elems)) :
       Invoke(Permuted(cb.scts, p), cb.stderr_bio)

NextPolicy ==
  \/ FirstEvaluation
  \/ SameSourcesEvaluation
  \/ PermutedEvaluation

SpecPolicy == InitPolicy /\ [][NextPolicy]_vars

(***************************************************************************)
(* Properties.                                                             *)
(***************************************************************************)
\* The delivery channels that pass through the CA.
CaSignedSources == {"X509V3_EXTENSION", "OCSP_STAPLED_RESPONSE"}

\* Every element of the collection is an SCT (none is a null pointer).
AllScts(scts) == \A i \in 1..Len(scts.elems) : scts.elems[i] \in SctValues

HasCaSigned(scts) ==
  \E i \in 1..Len(scts.elems) : scts.elems[i].source \in CaSignedSources

\* The number of SCTs of the collection delivered through the CA.
NumCaSigned(scts) ==
  Cardinality({i \in 1..Len(scts.elems) : scts.elems[i].source \in CaSignedSources})

Accepted == cb.called /\ cb.outcome = "return" /\ cb.ret = 1
Rejected == cb.called /\ cb.outcome = "return" /\ cb.ret = 0

\* C1: a collection of SCTs holding at least one SCT whose source is
\* X509V3_EXTENSION or OCSP_STAPLED_RESPONSE is accepted (return 1),
\* whatever else it holds and in whatever order.
C1_AcceptWithCaSigned ==
  (cb.called /\ AllScts(cb.scts) /\ HasCaSigned(cb.scts)) => Accepted

\* Scenario D: OCSP, TLS extension, unknown: accepted.
C1_Witness ==
  /\ Accepted
  /\ SourcesOf(cb.scts) = <<"OCSP_STAPLED_RESPONSE", "TLS_EXTENSION", "UNKNOWN">>

\* C2: a collection in which no SCT has source X509V3_EXTENSION or
\* OCSP_STAPLED_RESPONSE is rejected (return 0): the absent and the empty
\* collection, and every collection of TLS extension, unknown and
\* unrecognized sources only.
C2_RejectWithoutCaSigned ==
  (cb.called /\ AllScts(cb.scts) /\ ~HasCaSigned(cb.scts)) => Rejected

C2_Witness ==
  /\ Rejected
  /\ SourcesOf(cb.scts) = <<"UNKNOWN", "OTHER", "TLS_EXTENSION">>

\* C3 as stated: every invocation, also of an absent collection and of one
\* with a null element, returns, and for those it returns 0; the process
\* is never aborted.
C3_NeverFails ==
  cb.called =>
    /\ cb.outcome = "return"
    /\ pc # "aborted"
    /\ (sk_SCT_num(cb.scts) <= 0 \/ ~AllScts(cb.scts)) => cb.ret = 0

\* C3 amended: an absent or empty collection is rejected by return 0; a
\* collection of SCTs makes the call return 0 or 1; a collection with a
\* null element fails assert(sct) and the process is aborted without a
\* verdict.
C3_FailsOnlyOnNullElement ==
  cb.called =>
    /\ sk_SCT_num(cb.scts) <= 0 => Rejected
    /\ AllScts(cb.scts) => (cb.outcome = "return" /\ cb.ret \in {0, 1} /\ pc # "aborted")
    /\ ~AllScts(cb.scts) => (cb.outcome = "abort" /\ pc = "aborted")

C3_Witness ==
  /\ cb.called
  /\ cb.scts.absent
  /\ Rejected
  /\ pc = "exited"

\* The library calls of a run of main in which every call succeeds.
MainCalls == <<"SSL_CTX_new", "SSL_CTX_set_default_verify_paths",
               "SSL_CTX_set_min_proto_version", "SSL_CTX_enable_ct",
               "SSL_CTX_set_ct_validation_callback", "configure_ct_lite_enforcement",
               "BIO_new_ssl_connect", "BIO_get_ssl", "BIO_set_conn_hostname",
               "BIO_get_conn_hostname", "SSL_set1_host", "BIO_do_handshake">>

EveryStepSucceeded ==
  /\ argc >= 2
  /\ trace = [i \in 1..Len(MainCalls) |-> Call(MainCalls[i], TRUE)]

Printed(fmt) == \E i \in 1..Len(stderr) : stderr[i].fmt = fmt

Made(call) == \E i \in 1..Len(trace) : trace[i] = call

TimesCalled(name) == Cardinality({i \in 1..Len(trace) : trace[i].call = name})

AnyFailure == argc < 2 \/ \E i \in 1..Len(trace) : ~trace[i].ok

\* C4: after the callback returned 0 the handshake fails, "Successfully
\* connected" is not printed and main exits with 1; the handshake is tried
\* once.  "Successfully connected" and exit status 0 come together, and only
\* when every step succeeded and the callback returned 1; every failure
\* gives exit status 1.
C4_RejectFailsRun ==
  /\ Rejected =>
       /\ ~Printed(MsgConnected)
       /\ pc \in {"handshake_returned", "err", "exited"} =>
            Made(Call("BIO_do_handshake", FALSE))
       /\ pc = "exited" => rc = 1
  /\ TimesCalled("BIO_do_handshake") <= 1
  /\ Printed(MsgConnected) => (EveryStepSucceeded /\ Accepted)
  /\ pc = "exited" =>
       /\ rc \in {0, 1}
       /\ rc = 0 <=> Printed(MsgConnected)
       /\ AnyFailure => rc = 1

\* A server that presents no SCTs at all: rejected, exit status 1.
C4_Witness ==
  /\ Rejected
  /\ cb.scts.absent
  /\ pc = "exited"
  /\ rc = 1
  /\ ~Printed(MsgConnected)

\* C5: configure_ct_lite_enforcement returns 1 only after SSL_CTX_enable_ct
\* and then SSL_CTX_set_ct_validation_callback succeeded; after a failed
\* SSL_CTX_enable_ct the callback is not registered; when either call fails
\* the function returns 0 and main exits with 1, creating no connection,
\* attempting no handshake and configuring once only.
C5_ConfigureBothOrFail ==
  /\ \A i \in 1..Len(trace) :
       trace[i] = Call("configure_ct_lite_enforcement", TRUE) =>
         /\ i >= 3
         /\ trace[i - 2] = Call("SSL_CTX_enable_ct", TRUE)
         /\ trace[i - 1] = Call("SSL_CTX_set_ct_validation_callback", TRUE)
         /\ ctx.ct = "strict"
         /\ ctx.ct_callback = "on_ct_validation"
  /\ Made(Call("SSL_CTX_enable_ct", FALSE)) =>
       /\ TimesCalled("SSL_CTX_set_ct_validation_callback") = 0
       /\ ctx.ct_callback = "none"
  /\ (Made(Call("SSL_CTX_enable_ct", FALSE))
        \/ Made(Call("SSL_CTX_set_ct_validation_callback", FALSE))) =>
       Made(Call("configure_ct_lite_enforcement", FALSE))
  /\ Made(Call("configure_ct_lite_enforcement", FALSE)) =>
       /\ TimesCalled("BIO_new_ssl_connect") = 0
       /\ TimesCalled("BIO_do_handshake") = 0
       /\ bio = "null"
       /\ ~cb.called
       /\ pc \in {"err", "exited"}
       /\ pc = "exited" => rc = 1
  /\ TimesCalled("configure_ct_lite_enforcement") <= 1
  /\ TimesCalled("SSL_CTX_enable_ct") <= 1

C5_Witness ==
  /\ Made(Call("SSL_CTX_enable_ct", TRUE))
  /\ Made(Call("SSL_CTX_set_ct_validation_callback", FALSE))
  /\ pc = "exited"
  /\ rc = 1

\* The previous and the current invocation ended the same way.
SameVerdict == cb.outcome = prev.outcome /\ cb.ret = prev.ret

\* C6: two invocations on collections with the same length and the same
\* source at each position end the same way, whatever the payloads of the
\* SCTs and whether or not BIO_new_fp returned NULL in either.
C6_VerdictFromSourcesOnly ==
  (prev.called /\ cb.called /\ SourcesOf(cb.scts) = prev.sources) => SameVerdict

\* Same sources, the BIO created in one invocation and not in the other,
\* both accepted.
C6_Witness ==
  /\ prev.called
  /\ cb.called
  /\ SourcesOf(cb.scts) = prev.sources
  /\ Len(prev.sources) = 2
  /\ cb.stderr_bio # prev.stderr_bio
  /\ cb.scts.elems[1].payload # cb.scts.elems[2].payload
  /\ Accepted

\* a and b hold the same values the same number of times.
IsPermutation(a, b) ==
  /\ Len(a) = Len(b)
  /\ \A x \in {a[i] : i \in 1..Len(a)} \cup {b[i] : i \in 1..Len(b)} :
       Cardinality({i \in 1..Len(a) : a[i] = x}) =
       Cardinality({i \in 1..Len(b) : b[i] = x})

\* C7: an invocation on a permutation of a collection ends the same way as
\* the invocation on the collection.
C7_OrderIndependent ==
  (prev.called /\ cb.called /\ IsPermutation(SourcesOf(cb.scts), prev.sources))
    => SameVerdict

C7_Witness ==
  /\ prev.called
  /\ prev.sources = <<"X509V3_EXTENSION", "TLS_EXTENSION", "UNKNOWN">>
  /\ SourcesOf(cb.scts) = <<"UNKNOWN", "TLS_EXTENSION", "X509V3_EXTENSION">>
  /\ Accepted

\* The invocation wrote a line with this format string.
Wrote(fmt) == \E i \in 1..Len(cb.out) : cb.out[i].fmt = fmt

\* C8 as stated: every invocation that returns, whatever it returns,
\* writes that SCT signatures have NOT been validated.
C8_DisclaimerAlways ==
  (cb.called /\ cb.outcome = "return") => Wrote(MsgNotValidated)

\* C8 amended: an invocation writes that SCT signatures have NOT been
\* validated exactly when it returns 1, as its last line; an invocation
\* that returns 0 (empty or non-empty collection) does not write it.
C8_DisclaimerIffAccepted ==
  cb.called =>
    /\ Wrote(MsgNotValidated) <=> Accepted
    /\ Accepted => cb.out[Len(cb.out)] = Line(MsgNotValidated, <<>>)

C8_Witness ==
  /\ Accepted
  /\ Wrote(MsgNotValidated)
  /\ Len(cb.scts.elems) = 2

\* What a line says in figures or words: the total number of SCTs, the
\* number delivered through the CA, the verdict (empty: it does not say).
StatedTotal(l) ==
  IF l.fmt = MsgAccept THEN {l.args[1]}
  ELSE IF l.fmt = MsgNoScts THEN {0}
  ELSE {}

StatedCaSigned(l) ==
  IF l.fmt = MsgAccept THEN {l.args[2]}
  ELSE IF l.fmt \in {MsgNoScts, MsgNoSigned} THEN {0}
  ELSE {}

StatedVerdict(l) ==
  IF l.fmt = MsgAccept THEN {1}
  ELSE IF l.fmt \in {MsgNoScts, MsgNoSigned} THEN {0}
  ELSE {}

\* A line that belongs to the record of one SCT.
IsPerSctLine(l) ==
  l.fmt \in {"SCT_print", MsgNewline, MsgX509, MsgOcsp, MsgTls, MsgUnknown}

\* The positions of the lines that state a verdict.
VerdictLines == {k \in 1..Len(cb.out) : StatedVerdict(cb.out[k]) # {}}

\* The number of SCTs handed in (none for an absent collection).
NumScts == Len(cb.scts.elems)

\* C9 as stated: every invocation that returns writes one summary line,
\* after all per-SCT lines, that states the total number of SCTs, the
\* number delivered through the CA and the verdict, the figures being the
\* actual ones.
C9_SummaryAlways ==
  (cb.called /\ cb.outcome = "return") =>
    /\ Cardinality(VerdictLines) = 1
    /\ \A k \in VerdictLines :
         /\ StatedTotal(cb.out[k]) = {NumScts}
         /\ StatedCaSigned(cb.out[k]) = {NumCaSigned(cb.scts)}
         /\ StatedVerdict(cb.out[k]) = {cb.ret}
         /\ \A j \in k..Len(cb.out) : ~IsPerSctLine(cb.out[j])

\* C9 amended: every invocation that returns writes exactly one line that
\* states the verdict, after all per-SCT lines.  When it returns 1 the line
\* states the total number of SCTs and the number delivered through the CA,
\* both the actual ones, and only the NOT-validated line follows it.  When
\* it returns 0 the line is the last one and states no figure: it says
\* that no SCT was received (empty or absent collection), or that none was
\* delivered through the CA, without the total (non-empty collection).
C9_SummaryFiguresOnAccept ==
  (cb.called /\ cb.outcome = "return") =>
    /\ Cardinality(VerdictLines) = 1
    /\ \A k \in VerdictLines :
         /\ StatedVerdict(cb.out[k]) = {cb.ret}
         /\ StatedCaSigned(cb.out[k]) = {NumCaSigned(cb.scts)}
         /\ \A j \in k..Len(cb.out) : ~IsPerSctLine(cb.out[j])
         /\ cb.ret = 1 =>
              /\ cb.out[k] = Line(MsgAccept, <<NumScts, NumCaSigned(cb.scts)>>)
              /\ k = Len(cb.out) - 1
              /\ cb.out[Len(cb.out)] = Line(MsgNotValidated, <<>>)
         /\ cb.ret = 0 =>
              /\ k = Len(cb.out)
              /\ cb.out[k].args = <<>>
              /\ NumScts = 0 => cb.out[k].fmt = MsgNoScts
              /\ NumScts > 0 => (cb.out[k].fmt = MsgNoSigned /\ StatedTotal(cb.out[k]) = {})

C9_Witness ==
  /\ Accepted
  /\ NumScts = 3
  /\ NumCaSigned(cb.scts) = 2
  /\ cb.out[Len(cb.out) - 1] = Line(MsgAccept, <<3, 2>>)

\* The classification line of each source.
BucketLine(source) ==
  CASE source = "X509V3_EXTENSION"      -> Line(MsgX509, <<>>)
    [] source = "OCSP_STAPLED_RESPONSE" -> Line(MsgOcsp, <<>>)
    [] source = "TLS_EXTENSION"         -> Line(MsgTls, <<>>)
    [] OTHER                            -> Line(MsgUnknown, <<>>)

\* The lines that report an SCT as CA-signed.
SaysCaSigned(l) == l.fmt \in {MsgX509, MsgOcsp}

\* The classification lines.
IsClassLine(l) == l.fmt \in {MsgX509, MsgOcsp, MsgTls, MsgUnknown}

\* The per-SCT records of elems in order: for each SCT its dump and a
\* newline when dumped, then its classification line.
RECURSIVE Records(_, _)
Records(elems, dumped) ==
  IF elems = <<>> THEN <<>>
  ELSE (IF dumped THEN <<Dump(Head(elems)), Line(MsgNewline, <<>>)>> ELSE <<>>)
       \o <<BucketLine(Head(elems).source)>>
       \o Records(Tail(elems), dumped)

\* The per-SCT lines the invocation wrote, in order.
PerSctLines == SelectSeq(cb.out, IsPerSctLine)

\* The number counted toward num_signed_sct, as the verdict line gives it.
CountedCaSigned ==
  IF cb.ret = 1 THEN cb.out[Len(cb.out) - 1].args[2] ELSE 0

\* The classification lines agree with the sources, and as many SCTs are
\* reported CA-signed as were counted.
ClassifiedAsCounted ==
  /\ \A i \in 1..Len(PerSctLines) :
       SaysCaSigned(PerSctLines[i]) <=>
         PerSctLines[i] \in {BucketLine(x) : x \in CaSignedSources}
  /\ Cardinality({i \in 1..Len(PerSctLines) : SaysCaSigned(PerSctLines[i])})
       = CountedCaSigned

\* C10 as stated: an invocation on n SCTs that returns writes n per-SCT
\* records in collection order, each holding the dump of the SCT and its
\* classification line.
C10_DumpAndClassAlways ==
  (cb.called /\ cb.outcome = "return" /\ AllScts(cb.scts)) =>
    /\ PerSctLines = Records(cb.scts.elems, TRUE)
    /\ ClassifiedAsCounted

\* C10 amended: an invocation on n SCTs that returns writes n per-SCT
\* records in collection order.  Each holds the classification line of the
\* SCT's source (X509v3 and OCSP as CA-signed, TLS extension and unknown as
\* not CA-signed), and an SCT is reported CA-signed exactly when it was
\* counted; the dump of the SCT precedes the line only when BIO_new_fp
\* returned a BIO: when it returned NULL no SCT is dumped.
C10_ClassAlwaysDumpWithBio ==
  (cb.called /\ cb.outcome = "return" /\ AllScts(cb.scts)) =>
    /\ PerSctLines = Records(cb.scts.elems, cb.stderr_bio)
    /\ Len(SelectSeq(cb.out, IsClassLine)) = NumScts
    /\ ClassifiedAsCounted

C10_Witness ==
  /\ Rejected
  /\ ~cb.stderr_bio
  /\ SourcesOf(cb.scts) = <<"TLS_EXTENSION", "OTHER">>
  /\ PerSctLines = <<Line(MsgTls, <<>>), Line(MsgUnknown, <<>>)>>

====
